---- MODULE Spec2Model ----
(***************************************************************************)
(* Model of fas::Float (src/fas/float.hpp): the conversion constructor     *)
(* Float(value, exponent) and the normalizer it calls, executed loop       *)
(* iteration by loop iteration.  The instantiation modelled is             *)
(*   Float<int8_t, int8_t, 2, -128, 127, -8, 8>                            *)
(* i.e. the default BASE and mantissa bounds of an 8 bit mantissa and an   *)
(* exponent range of [-8, 8].                                              *)
(***************************************************************************)
EXTENDS Integers, Naturals, Sequences, FiniteSets, TLC

\* ---- template parameters of the instantiation -------------------------
BASE == 2
MANTISSA_LOWEST == -128
MANTISSA_MAX == 127
EXPONENT_LOWEST == -8
EXPONENT_MAX == 8

\* ---- bounds of the explored inputs ------------------------------------
\* magnitudes -MaxV .. MaxV are all explored
MaxV == 300
\* magnitudes c * BASE^k, k \in 0..MaxShift, reach the far end of the
\* exponent range through the shrink loops
MaxShift == 16
\* exponents up to ExpSlack outside [EXPONENT_LOWEST, EXPONENT_MAX]
ExpSlack == 2

RECURSIVE Pow(_, _)
Pow(b, n) == IF n <= 0 THEN 1 ELSE b * Pow(b, n - 1)

Seeds == {100, 127, 128, 129}

Magnitudes ==
    (-MaxV .. MaxV)
    \cup { c * Pow(BASE, k) : c \in Seeds, k \in 0 .. MaxShift }
    \cup { -(c * Pow(BASE, k)) : c \in Seeds, k \in 0 .. MaxShift }

Exponents == (EXPONENT_LOWEST - ExpSlack) .. (EXPONENT_MAX + ExpSlack)

\* ---- C++ integer arithmetic -------------------------------------------
\* variant: division rounding toward minus infinity
FloorDiv(a, b) == a \div b

\* operator/ on signed integers truncates toward zero (b > 0 here)
TruncDiv(a, b) == IF a >= 0 THEN a \div b ELSE -((-a) \div b)

\* static_cast<Tmantissa>(x): Tmantissa is the integer type whose
\* numeric_limits are [MANTISSA_LOWEST, MANTISSA_MAX]; conversion is modular
Narrow(x) ==
    ((x - MANTISSA_LOWEST) % (MANTISSA_MAX - MANTISSA_LOWEST + 1))
        + MANTISSA_LOWEST

\* ---- factory ----------------------------------------------------------
of(m, e) == [mantissa |-> m, exponent |-> e]
ZERO == of(0, 0)
INF == of(0, 1)
NEGATIVE_INF == of(0, 2)
NOT_A_NUMBER == of(0, 3)
MIN == of(1, EXPONENT_LOWEST)
LOWEST == of(MANTISSA_LOWEST, EXPONENT_MAX)
MAX == of(MANTISSA_MAX, EXPONENT_MAX)

VARIABLES
    V,          \* constructor argument `value` (const)
    E,          \* constructor argument `exponent` (const)
    _mantissa,  \* Float::_mantissa
    _exponent,  \* Float::_exponent
    value,      \* normalize's parameter `value`, the working magnitude
    narrow,     \* TRUE iff normalize runs with Tvalue = Tmantissa
    pc,         \* position in the constructor / normalizer
    iters       \* exponent-changing loop iterations executed so far

vars == <<V, E, _mantissa, _exponent, value, narrow, pc, iters>>

this == of(_mantissa, _exponent)

Init ==
    /\ V \in Magnitudes
    /\ E \in Exponents
    /\ _mantissa = 0
    /\ _exponent = 0
    /\ value = 0
    /\ narrow = FALSE
    /\ pc = "ctor"
    /\ iters = 0

\* variant: only the mantissa is reset, the exponent keeps its value
AssignMantissaOnly(s) ==
    /\ _mantissa' = s.mantissa
    /\ _exponent' = _exponent
    /\ pc' = "done"

\* `*this = s; return;` inside normalize, or `*this = s;` in the constructor
Assign(s) ==
    /\ _mantissa' = s.mantissa
    /\ _exponent' = s.exponent
    /\ pc' = "done"

\* the constructor's else branch: store the exponent, pick the narrow or
\* the wide instantiation of normalize, call it
CallNormalize ==
    /\ _exponent' = E
    /\ IF V < MANTISSA_MAX /\ V > MANTISSA_LOWEST
       THEN /\ _mantissa' = Narrow(V)
            /\ value' = Narrow(V)
            /\ narrow' = TRUE
       ELSE /\ _mantissa' = _mantissa
            /\ value' = V
            /\ narrow' = FALSE
    /\ pc' = "normalize"

\* variant: a zero magnitude is recognised before the exponent is inspected
ConstructMagnitudeFirst ==
    /\ pc = "ctor"
    /\ IF V = 0
       THEN Assign(ZERO) /\ UNCHANGED <<value, narrow>>
       ELSE IF E > EXPONENT_MAX
       THEN Assign(INF) /\ UNCHANGED <<value, narrow>>
       ELSE IF E < EXPONENT_LOWEST
       THEN Assign(NEGATIVE_INF) /\ UNCHANGED <<value, narrow>>
       ELSE CallNormalize
    /\ UNCHANGED <<V, E, iters>>

\* variant: the upper exponent test is >= instead of >
ConstructOffByOne ==
    /\ pc = "ctor"
    /\ IF E >= EXPONENT_MAX
       THEN Assign(INF) /\ UNCHANGED <<value, narrow>>
       ELSE IF E < EXPONENT_LOWEST
       THEN Assign(NEGATIVE_INF) /\ UNCHANGED <<value, narrow>>
       ELSE CallNormalize
    /\ UNCHANGED <<V, E, iters>>

\* Float(const Tvalue value, const TvalueExponent exponent)
Construct ==
    /\ pc = "ctor"
    /\ IF E > EXPONENT_MAX
       THEN Assign(INF) /\ UNCHANGED <<value, narrow>>
       ELSE IF E < EXPONENT_LOWEST
       THEN Assign(NEGATIVE_INF) /\ UNCHANGED <<value, narrow>>
       ELSE CallNormalize
    /\ UNCHANGED <<V, E, iters>>

\* value *= BASE in the type normalize was instantiated with
Times(v) == IF narrow THEN Narrow(v * BASE) ELSE v * BASE

\* normalize: the zero test and the sign dispatch
NormalizeEntry ==
    /\ pc = "normalize"
    /\ IF value = 0
       THEN Assign(ZERO)
       ELSE /\ pc' = IF value > 0 THEN "grow_pos" ELSE "grow_neg"
            /\ UNCHANGED <<_mantissa, _exponent>>
    /\ UNCHANGED <<V, E, value, narrow, iters>>

\* one evaluation of `while (value <= MANTISSA_MAX / BASE)` and its body
GrowPos ==
    /\ pc = "grow_pos"
    /\ IF value <= TruncDiv(MANTISSA_MAX, BASE)
       THEN IF _exponent = EXPONENT_LOWEST
            THEN Assign(ZERO) /\ UNCHANGED <<value, iters>>
            ELSE /\ _exponent' = _exponent - 1
                 /\ value' = Times(value)
                 /\ iters' = iters + 1
                 /\ UNCHANGED <<_mantissa, pc>>
       ELSE /\ pc' = "shrink_pos"
            /\ UNCHANGED <<_mantissa, _exponent, value, iters>>
    /\ UNCHANGED <<V, E, narrow>>

\* variant: the shrink loop tests >= instead of >
ShrinkPosInclusive ==
    /\ pc = "shrink_pos"
    /\ IF value >= MANTISSA_MAX
       THEN IF _exponent = EXPONENT_MAX
            THEN Assign(INF) /\ UNCHANGED <<value, iters>>
            ELSE /\ _exponent' = _exponent + 1
                 /\ value' = TruncDiv(value, BASE)
                 /\ iters' = iters + 1
                 /\ UNCHANGED <<_mantissa, pc>>
       ELSE /\ pc' = "store"
            /\ UNCHANGED <<_mantissa, _exponent, value, iters>>
    /\ UNCHANGED <<V, E, narrow>>

\* variant: the shrink loop does not test for EXPONENT_MAX
ShrinkPosUnguarded ==
    /\ pc = "shrink_pos"
    /\ IF value > MANTISSA_MAX
       THEN /\ _exponent' = _exponent + 1
            /\ value' = TruncDiv(value, BASE)
            /\ iters' = iters + 1
            /\ UNCHANGED <<_mantissa, pc>>
       ELSE /\ pc' = "store"
            /\ UNCHANGED <<_mantissa, _exponent, value, iters>>
    /\ UNCHANGED <<V, E, narrow>>

\* one evaluation of `while (value > MANTISSA_MAX)` and its body
ShrinkPos ==
    /\ pc = "shrink_pos"
    /\ IF value > MANTISSA_MAX
       THEN IF _exponent = EXPONENT_MAX
            THEN Assign(INF) /\ UNCHANGED <<value, iters>>
            ELSE /\ _exponent' = _exponent + 1
                 /\ value' = TruncDiv(value, BASE)
                 /\ iters' = iters + 1
                 /\ UNCHANGED <<_mantissa, pc>>
       ELSE /\ pc' = "store"
            /\ UNCHANGED <<_mantissa, _exponent, value, iters>>
    /\ UNCHANGED <<V, E, narrow>>

\* variant: the growth loop tests > instead of >=
GrowNegStrict ==
    /\ pc = "grow_neg"
    /\ IF value > TruncDiv(MANTISSA_LOWEST, BASE)
       THEN IF _exponent = EXPONENT_LOWEST
            THEN Assign(ZERO) /\ UNCHANGED <<value, iters>>
            ELSE /\ _exponent' = _exponent - 1
                 /\ value' = Times(value)
                 /\ iters' = iters + 1
                 /\ UNCHANGED <<_mantissa, pc>>
       ELSE /\ pc' = "shrink_neg"
            /\ UNCHANGED <<_mantissa, _exponent, value, iters>>
    /\ UNCHANGED <<V, E, narrow>>

\* one evaluation of `while (value >= MANTISSA_LOWEST / BASE)` and its body
GrowNeg ==
    /\ pc = "grow_neg"
    /\ IF value >= TruncDiv(MANTISSA_LOWEST, BASE)
       THEN IF _exponent = EXPONENT_LOWEST
            THEN Assign(ZERO) /\ UNCHANGED <<value, iters>>
            ELSE /\ _exponent' = _exponent - 1
                 /\ value' = Times(value)
                 /\ iters' = iters + 1
                 /\ UNCHANGED <<_mantissa, pc>>
       ELSE /\ pc' = "shrink_neg"
            /\ UNCHANGED <<_mantissa, _exponent, value, iters>>
    /\ UNCHANGED <<V, E, narrow>>

\* variant: the shrink loop does not test for EXPONENT_MAX
ShrinkNegUnguarded ==
    /\ pc = "shrink_neg"
    /\ IF value < MANTISSA_LOWEST
       THEN /\ _exponent' = _exponent + 1
            /\ value' = TruncDiv(value, BASE)
            /\ iters' = iters + 1
            /\ UNCHANGED <<_mantissa, pc>>
       ELSE /\ pc' = "store"
            /\ UNCHANGED <<_mantissa, _exponent, value, iters>>
    /\ UNCHANGED <<V, E, narrow>>

\* variant: overflow of a negative magnitude saturates to INF
ShrinkNegWrongSentinel ==
    /\ pc = "shrink_neg"
    /\ IF value < MANTISSA_LOWEST
       THEN IF _exponent = EXPONENT_MAX
            THEN Assign(INF) /\ UNCHANGED <<value, iters>>
            ELSE /\ _exponent' = _exponent + 1
                 /\ value' = TruncDiv(value, BASE)
                 /\ iters' = iters + 1
                 /\ UNCHANGED <<_mantissa, pc>>
       ELSE /\ pc' = "store"
            /\ UNCHANGED <<_mantissa, _exponent, value, iters>>
    /\ UNCHANGED <<V, E, narrow>>

\* one evaluation of `while (value < MANTISSA_LOWEST)` and its body
ShrinkNeg ==
    /\ pc = "shrink_neg"
    /\ IF value < MANTISSA_LOWEST
       THEN IF _exponent = EXPONENT_MAX
            THEN Assign(NEGATIVE_INF) /\ UNCHANGED <<value, iters>>
            ELSE /\ _exponent' = _exponent + 1
                 /\ value' = TruncDiv(value, BASE)
                 /\ iters' = iters + 1
                 /\ UNCHANGED <<_mantissa, pc>>
       ELSE /\ pc' = "store"
            /\ UNCHANGED <<_mantissa, _exponent, value, iters>>
    /\ UNCHANGED <<V, E, narrow>>

\* _mantissa = static_cast<Tmantissa>(value);
Store ==
    /\ pc = "store"
    /\ _mantissa' = Narrow(value)
    /\ pc' = "done"
    /\ UNCHANGED <<V, E, _exponent, value, narrow, iters>>

Next ==
    \/ Construct
    \/ NormalizeEntry
    \/ GrowPos
    \/ ShrinkPos
    \/ GrowNeg
    \/ ShrinkNeg
    \/ Store

Spec == Init /\ [][Next]_vars

\* the constructor is one synchronous call: it keeps running until it returns
FairSpec == Init /\ [][Next]_vars /\ WF_vars(Next)

\* ---- vocabulary of the properties --------------------------------------
Done == pc = "done"

InRange(e) == e >= EXPONENT_LOWEST /\ e <= EXPONENT_MAX

InBounds(m) == m >= MANTISSA_LOWEST /\ m <= MANTISSA_MAX

\* one more multiplication by BASE would leave the mantissa bounds
Maximal(m) == m * BASE > MANTISSA_MAX \/ m * BASE < MANTISSA_LOWEST

Span == EXPONENT_MAX - EXPONENT_LOWEST

\* ---- C1 ----------------------------------------------------------------
\* C1: every non-special constructed value is canonical: its mantissa times
\* BASE lies above MANTISSA_MAX or below MANTISSA_LOWEST, or its exponent
\* is EXPONENT_LOWEST; results of the shrink loops included.
CanonicalForm ==
    (Done /\ _mantissa # 0) =>
        (Maximal(_mantissa) \/ _exponent = EXPONENT_LOWEST)

\* ---- C2 ----------------------------------------------------------------
\* C2: a constructed value with mantissa 0 is one of the four sentinels
\* (0,0), (0,1), (0,2), (0,3), and the final store of the normalizer never
\* writes a zero mantissa next to the working exponent.
SentinelExclusivity ==
    /\ (Done /\ _mantissa = 0) =>
           this \in {ZERO, INF, NEGATIVE_INF, NOT_A_NUMBER}
    /\ pc = "store" => (value # 0 /\ Narrow(value) # 0)

SentinelExclusivityWitness ==
    /\ Done
    /\ V # 0
    /\ InRange(E)
    /\ iters > 0
    /\ _exponent # E
    /\ this = ZERO

\* ---- C3 ----------------------------------------------------------------
\* C3: an exponent argument above EXPONENT_MAX gives +INF and one below
\* EXPONENT_LOWEST gives -INF whatever the magnitude is, and the normalizer
\* is not entered.
ExponentSaturation ==
    /\ ~InRange(E) => (pc \in {"ctor", "done"} /\ iters = 0 /\ value = 0)
    /\ (Done /\ E > EXPONENT_MAX) => this = INF
    /\ (Done /\ E < EXPONENT_LOWEST) => this = NEGATIVE_INF

ExponentSaturationWitness ==
    /\ Done
    /\ E = EXPONENT_MAX + 1
    /\ V = 0
    /\ this = INF

\* ---- C4 ----------------------------------------------------------------
\* mantissa * BASE^exponent = V * BASE^E, both sides scaled by a common
\* power of BASE so that only non-negative powers occur
RepresentsExactly ==
    IF _exponent >= E
    THEN _mantissa * Pow(BASE, _exponent - E) = V
    ELSE LET P == Pow(BASE, E - _exponent)
         IN  _mantissa % P = 0 /\ _mantissa \div P = V

\* C4 (as claimed): every non-saturated construction with an in-range
\* exponent represents V * BASE^E exactly.
RoundTrip ==
    (Done /\ InRange(E) /\ _mantissa # 0) => RepresentsExactly

\* C4 (amended): a non-saturated construction represents V * BASE^E exactly
\* when no shrink step happened; after k shrink steps the mantissa is
\* V / BASE^k truncated toward zero, so the represented value never exceeds
\* V * BASE^E in magnitude and misses it by less than BASE^exponent.
RoundTripTruncated ==
    (Done /\ InRange(E) /\ _mantissa # 0) =>
        IF _exponent <= E
        THEN RepresentsExactly
        ELSE LET P == Pow(BASE, _exponent - E)
                 r == V - _mantissa * P
             IN  /\ V > 0 => (r >= 0 /\ r < P)
                 /\ V < 0 => (r <= 0 /\ r > -P)

RoundTripTruncatedWitness ==
    /\ Done
    /\ InRange(E)
    /\ _mantissa # 0
    /\ _exponent > E + 1
    /\ V < 0
    /\ ~RepresentsExactly

\* ---- C5 ----------------------------------------------------------------
\* the pair of constructor arguments is canonical in the documented sense
CanonicalPair(m, e) ==
    /\ m # 0
    /\ InBounds(m)
    /\ InRange(e)
    /\ (Maximal(m) \/ e = EXPONENT_LOWEST)

\* C5 (as claimed): constructing from a canonical pair, MIN() included,
\* returns that pair.
Idempotence ==
    (Done /\ CanonicalPair(V, E)) => this = of(V, E)

\* C5 (amended): constructing from a pair whose mantissa is maximal (times
\* BASE it leaves the mantissa bounds) returns that pair; a pair that is
\* canonical only because its exponent is EXPONENT_LOWEST, such as MIN(),
\* underflows to ZERO.
IdempotenceMaximal ==
    /\ (Done /\ CanonicalPair(V, E) /\ Maximal(V)) => this = of(V, E)
    /\ (Done /\ CanonicalPair(V, E) /\ ~Maximal(V)) => this = ZERO

IdempotenceMaximalWitness ==
    /\ Done
    /\ V = MANTISSA_MAX
    /\ E = EXPONENT_MAX
    /\ this = MAX

\* ---- C6 ----------------------------------------------------------------
\* C6 (as claimed): magnitude 0 gives ZERO for every exponent argument.
ZeroMagnitude ==
    (Done /\ V = 0) => this = ZERO

\* C6 (amended): magnitude 0 gives ZERO for every exponent argument within
\* [EXPONENT_LOWEST, EXPONENT_MAX]; above EXPONENT_MAX it gives +INF and
\* below EXPONENT_LOWEST it gives -INF.
ZeroMagnitudeInRange ==
    (Done /\ V = 0) =>
        this = IF E > EXPONENT_MAX THEN INF
               ELSE IF E < EXPONENT_LOWEST THEN NEGATIVE_INF
               ELSE ZERO

ZeroMagnitudeInRangeWitness ==
    /\ Done
    /\ V = 0
    /\ E = EXPONENT_MAX
    /\ this = ZERO

\* ---- C7 ----------------------------------------------------------------
\* C7: a constructed value is ZERO, +INF, -INF or a non-special pair whose
\* mantissa and exponent are within their bounds (the final store narrows a
\* magnitude that already fits); NOT_A_NUMBER is never produced.
OutputRange ==
    /\ Done =>
        \/ this \in {ZERO, INF, NEGATIVE_INF}
        \/ (_mantissa # 0 /\ InBounds(_mantissa) /\ InRange(_exponent))
    /\ pc = "store" => (InBounds(value) /\ InRange(_exponent))

OutputRangeWitness ==
    /\ Done
    /\ V > MANTISSA_MAX
    /\ _mantissa # 0
    /\ _exponent = EXPONENT_MAX
    /\ iters > 0

\* ---- C8 ----------------------------------------------------------------
\* C8: the construction terminates, and the growth and shrink loops change
\* the exponent at most EXPONENT_MAX - EXPONENT_LOWEST times.
TerminationBound ==
    /\ [](iters <= Span)
    /\ <>Done

TerminationBoundWitness ==
    /\ Done
    /\ iters = Span
    /\ _mantissa # 0

\* ---- C9 ----------------------------------------------------------------
\* C9: for a nonzero magnitude and an in-range exponent the result is ZERO
\* exactly when growth is still needed with the exponent at EXPONENT_LOWEST,
\* +INF exactly when a positive magnitude still exceeds MANTISSA_MAX with
\* the exponent at EXPONENT_MAX, -INF exactly when a negative magnitude is
\* still below MANTISSA_LOWEST there, and otherwise non-special with the
\* sign of the magnitude; Float(1, EXPONENT_LOWEST) is ZERO.
SaturationDecision ==
    (Done /\ V # 0 /\ InRange(E)) =>
        LET down == Pow(BASE, E - EXPONENT_LOWEST)
            up == Pow(BASE, EXPONENT_MAX - E)
            under == IF V > 0
                     THEN V <= (MANTISSA_MAX \div BASE) \div down
                     ELSE -V <= ((-MANTISSA_LOWEST) \div BASE) \div down
            overPos == V > 0 /\ V \div up > MANTISSA_MAX
            overNeg == V < 0 /\ (-V) \div up > -MANTISSA_LOWEST
        IN  /\ this = ZERO <=> under
            /\ this = INF <=> overPos
            /\ this = NEGATIVE_INF <=> overNeg
            /\ ~(under \/ overPos \/ overNeg) =>
                   /\ _mantissa # 0
                   /\ (_mantissa > 0) <=> (V > 0)
            /\ (V = 1 /\ E = EXPONENT_LOWEST) => this = ZERO

SaturationDecisionWitness ==
    /\ Done
    /\ V < MANTISSA_LOWEST
    /\ InRange(E)
    /\ iters > 0
    /\ this = NEGATIVE_INF

====
